---------------------------- MODULE Spec2Model ----------------------------
(***************************************************************************)
(* A model of amazon_pay/report_client.py: the ReportClient constructor    *)
(* (resolution of the five required fields from explicit arguments or the  *)
(* process environment, region lookup, endpoint, logging set-up and        *)
(* User-Agent), the sandbox property, and the three report operations      *)
(* that funnel through ReportClient._operation.                            *)
(*                                                                         *)
(* Python values are modelled by strings; None is the token below, which   *)
(* is in no input's set of proper values.  A dict is a function whose      *)
(* DOMAIN is its key set; an object is the function from the names of the  *)
(* attributes set so far to their values.                                  *)
(***************************************************************************)
EXTENDS Integers, Sequences, FiniteSets, TLC

VARIABLES
    environ,      \* os.environ restricted to the five AP_* variables
    pc,           \* "new": not constructed, "ready": client produced, "raised": __init__ raised
    call,         \* the arguments __init__ was called with (<< >> before the call)
    client,       \* the attributes of the ReportClient produced (<< >> when none)
    error,        \* the exception __init__ raised, NoError otherwise
    logger,       \* the class-level logger '__amazon_pay_sdk__'
    op_call,      \* the last report operation invoked and its arguments
    request,      \* the last ReportRequest object constructed
    n_calls,      \* number of report operations invoked
    n_requests,   \* number of ReportRequest objects constructed
    n_send_post,  \* number of send_post() calls made
    returned      \* the value the last report operation returned

vars == <<environ, pc, call, client, error, logger, op_call, request,
          n_calls, n_requests, n_send_post, returned>>

None == "<None>"

(***************************************************************************)
(* Bounds.                                                                 *)
(***************************************************************************)
MaxCalls == 2

(***************************************************************************)
(* Collaborator modules of the package that the client imports.            *)
(***************************************************************************)
regions ==
    ("na" :> "mws.amazonservices.com") @@
    ("uk" :> "mws-eu.amazonservices.com") @@
    ("de" :> "mws-eu.amazonservices.com") @@
    ("jp" :> "mws.amazonservices.jp")

versions ==
    [api_version |-> "2009-01-01",
     api_name |-> "Reports",
     application_version |-> "2.0.0"]

\* ReportRequest(params, config): the request object, not yet sent.
ReportRequest(params, config) ==
    [id |-> n_requests + 1, params |-> params, config |-> config,
     response |-> [of |-> 0]]

\* request.send_post(): signs and posts, then populates request.response.
send_post(req) == [req EXCEPT !.response = [of |-> req.id]]

(***************************************************************************)
(* Interpreter and platform values used by the constructor.                *)
(***************************************************************************)
current_py_ver == "3.8.10"
platform_system == "Linux"
platform_release == "5.4.0"

\* str.upper() on the log_level values of the model
str_upper(s) ==
    CASE s = "debug" -> "DEBUG"
      [] s = "Info" -> "INFO"
      [] s = "bogus" -> "BOGUS"
      [] OTHER -> s

\* the numeric level attributes of the logging module
logging_levels ==
    ("CRITICAL" :> 50) @@ ("ERROR" :> 40) @@ ("WARNING" :> 30) @@
    ("INFO" :> 20) @@ ("DEBUG" :> 10) @@ ("NOTSET" :> 0)

(***************************************************************************)
(* Objects and exceptions.                                                 *)
(***************************************************************************)
NoClient == << >>
NoCall == << >>
NoRequest == << >>
NoError == [type |-> "none", msg |-> ""]

ValueError(msg) == [type |-> "ValueError", msg |-> msg]
KeyError(msg) == [type |-> "KeyError", msg |-> msg]
AttributeError(msg) == [type |-> "AttributeError", msg |-> msg]

\* setattr(obj, name, value); also dict[name] = value
setattr(obj, name, value) ==
    [k \in DOMAIN obj \cup {name} |-> IF k = name THEN value ELSE obj[k]]

\* class body: logger = logging.getLogger(...); logger.addHandler(NullHandler())
class_logger ==
    [level |-> 0,
     handlers |-> <<[kind |-> "NullHandler", target |-> None, level |-> 0]>>]

(***************************************************************************)
(* ReportClient.__init__                                                   *)
(***************************************************************************)
env_param_map ==
    ("mws_access_key" :> "AP_MWS_ACCESS_KEY") @@
    ("mws_secret_key" :> "AP_MWS_SECRET_KEY") @@
    ("merchant_id" :> "AP_MERCHANT_ID") @@
    ("region" :> "AP_REGION") @@
    ("currency_code" :> "AP_CURRENCY_CODE")

\* variant: the keys visited in sorted order
env_param_order_sorted ==
    <<"currency_code", "merchant_id", "mws_access_key", "mws_secret_key",
      "region">>

\* the order in which `for param in env_param_map` visits the keys: a dict
\* literal is iterated in insertion order
env_param_order ==
    <<"mws_access_key", "mws_secret_key", "merchant_id", "region",
      "currency_code">>

\* raise ValueError('Invalid {}.'.format(param))
missing_param_error_envname(param) ==
    ValueError("Invalid " \o env_param_map[param] \o ".")

missing_param_error(param) == ValueError("Invalid " \o param \o ".")

\* variants of the loop body: environment first; os.environ.get without raise
resolve_param_env_first(param, a) ==
    IF env_param_map[param] \in DOMAIN environ
    THEN [raised |-> FALSE, value |-> environ[env_param_map[param]]]
    ELSE IF a[param] = None
         THEN [raised |-> TRUE, value |-> None]
         ELSE [raised |-> FALSE, value |-> a[param]]

resolve_param_get(param, a) ==
    IF a[param] = None
    THEN IF env_param_map[param] \in DOMAIN environ
         THEN [raised |-> FALSE, value |-> environ[env_param_map[param]]]
         ELSE [raised |-> FALSE, value |-> None]
    ELSE [raised |-> FALSE, value |-> a[param]]

\* body of the loop for one param: the value to store, or the exception
resolve_param(param, a) ==
    IF a[param] = None
    THEN IF env_param_map[param] \in DOMAIN environ
         THEN [raised |-> FALSE, value |-> environ[env_param_map[param]]]
         ELSE [raised |-> TRUE, value |-> None]
    ELSE [raised |-> FALSE, value |-> a[param]]

RECURSIVE resolve_loop(_, _, _)
resolve_loop(i, self, a) ==
    IF i > Len(env_param_order)
    THEN [error |-> NoError, self |-> self]
    ELSE LET param == env_param_order[i]
             r == resolve_param(param, a)
         IN  IF r.raised
             THEN [error |-> missing_param_error(param), self |-> self]
             ELSE resolve_loop(i + 1, setattr(self, param, r.value), a)

\* variant: regions.get(self.region, regions['na']), never raising
region_lookup_default(self) ==
    LET host == IF self["region"] \in DOMAIN regions
                THEN regions[self["region"]]
                ELSE regions["na"]
    IN  [error |-> NoError,
         self |-> setattr(setattr(self, "_region", host),
                          "_region_code", self["region"])]

\* try: self._region = ap_region.regions[self.region] ... except KeyError
region_lookup(self) ==
    IF self["region"] \in DOMAIN regions
    THEN [error |-> NoError,
          self |-> setattr(setattr(self, "_region", regions[self["region"]]),
                           "_region_code", self["region"])]
    ELSE [error |-> KeyError("Invalid region code (" \o self["region"] \o ")"),
          self |-> self]

\* variant: a sandbox API name when the sandbox flag is set
_set_endpoint_sandbox(self) ==
    setattr(self, "_mws_endpoint",
            "https://" \o self["_region"] \o "/"
                \o (IF self["_sandbox"]
                    THEN self["_api_name"] \o "_Sandbox"
                    ELSE self["_api_name"])
                \o "/" \o self["_api_version"])

\* ReportClient._set_endpoint
_set_endpoint(self) ==
    setattr(self, "_mws_endpoint",
            "https://" \o self["_region"] \o "/" \o self["_api_name"]
                \o "/" \o self["_api_version"])

\* variant: the constructor leaves _mws_endpoint at None
init_attributes_no_endpoint(self, a) ==
    LET s1 == setattr(self, "handle_throttle", a.handle_throttle)
        s2 == setattr(s1, "application_name", a.application_name)
        s3 == setattr(s2, "application_version", a.application_version)
        s4 == setattr(s3, "_sandbox", a.sandbox)
        s5 == setattr(s4, "_api_version", versions.api_version)
        s6 == setattr(s5, "_api_name", versions.api_name)
        s7 == setattr(s6, "_application_library_version",
                      versions.application_version)
    IN  setattr(s7, "_mws_endpoint", None)

\* lines 117-131: plain attributes, versions and the first endpoint
init_attributes(self, a) ==
    LET s1 == setattr(self, "handle_throttle", a.handle_throttle)
        s2 == setattr(s1, "application_name", a.application_name)
        s3 == setattr(s2, "application_version", a.application_version)
        s4 == setattr(s3, "_sandbox", a.sandbox)
        s5 == setattr(s4, "_api_version", versions.api_version)
        s6 == setattr(s5, "_api_name", versions.api_name)
        s7 == setattr(s6, "_application_library_version",
                      versions.application_version)
        s8 == setattr(s7, "_mws_endpoint", None)
    IN  _set_endpoint(s8)

\* lines 133-145: logging set-up; the logger after it, or the exception
init_logging(a, lg) ==
    IF a.log_enabled # FALSE
    THEN IF a.log_level = None
         THEN [error |-> AttributeError("'NoneType' object has no attribute 'upper'"),
               logger |-> lg]
         ELSE LET name == str_upper(a.log_level)
              IN  IF name \in DOMAIN logging_levels
                  THEN LET numeric_level == logging_levels[name]
                           h == IF a.log_file_name # None
                                THEN [kind |-> "FileHandler",
                                      target |-> a.log_file_name,
                                      level |-> numeric_level]
                                ELSE [kind |-> "StreamHandler",
                                      target |-> "sys.stdout",
                                      level |-> numeric_level]
                       IN  [error |-> NoError,
                            logger |-> [level |-> numeric_level,
                                        handlers |-> Append(lg.handlers, h)]]
                  ELSE [error |-> NoError, logger |-> lg]
    ELSE [error |-> NoError, logger |-> lg]

\* lines 147-168: the User-Agent string
user_agent(application_name, application_version) ==
    LET present(x) == x \notin {"", None}
        v1 == IF present(application_name)
              THEN IF present(application_version)
                   THEN application_name \o "/" \o application_version
                   ELSE application_name
              ELSE IF present(application_version)
                   THEN application_version
                   ELSE ""
        app_name_and_ver ==
              IF present(application_name) \/ present(application_version)
              THEN v1 \o "; "
              ELSE v1
    IN  "amazon-pay-sdk-python/" \o versions.application_version \o " ("
            \o app_name_and_ver \o "Python/" \o current_py_ver \o "; "
            \o platform_system \o "/" \o platform_release \o ")"

\* lines 162-174
init_headers(self, a) ==
    LET ua == user_agent(a.application_name, a.application_version)
    IN  setattr(setattr(self, "_user_agent", ua), "_headers",
                ("Content-Type" :> "application/x-www-form-urlencoded") @@
                ("User-Agent" :> ua))

\* the whole constructor: the exception (or NoError), the object and the logger
__init__(a) ==
    LET r1 == resolve_loop(1, << >>, a)
    IN  IF r1.error # NoError
        THEN [error |-> r1.error, self |-> r1.self, logger |-> logger]
        ELSE LET r2 == region_lookup(r1.self)
             IN  IF r2.error # NoError
                 THEN [error |-> r2.error, self |-> r2.self, logger |-> logger]
                 ELSE LET s3 == init_attributes(r2.self, a)
                          r4 == init_logging(a, logger)
                      IN  IF r4.error # NoError
                          THEN [error |-> r4.error, self |-> s3,
                                logger |-> r4.logger]
                          ELSE [error |-> NoError,
                                self |-> init_headers(s3, a),
                                logger |-> r4.logger]

\* client = ReportClient(**a)
Construct(a) ==
    /\ pc = "new"
    /\ LET r == __init__(a)
       IN  /\ pc' = IF r.error = NoError THEN "ready" ELSE "raised"
           /\ client' = IF r.error = NoError THEN r.self ELSE NoClient
           /\ error' = r.error
           /\ logger' = r.logger
    /\ call' = a
    /\ UNCHANGED <<environ, op_call, request, n_calls, n_requests,
                   n_send_post, returned>>

(***************************************************************************)
(* The sandbox property.                                                   *)
(***************************************************************************)
\* @sandbox.setter
sandbox_setter(self, value) ==
    _set_endpoint(setattr(self, "_sandbox", value))

\* client.sandbox = value
SetSandbox(value) ==
    /\ pc = "ready"
    /\ client' = sandbox_setter(client, value)
    /\ UNCHANGED <<environ, pc, call, error, logger, op_call, request,
                   n_calls, n_requests, n_send_post, returned>>

(***************************************************************************)
(* Report operations.                                                      *)
(***************************************************************************)
\* the loop of _operation: params[opt] = options[opt] for the non-None options
\* (the three callers always pass an options dict, so `options is not None`)
merge_options(params, options) ==
    [k \in DOMAIN params \cup {o \in DOMAIN options : options[o] # None} |->
        IF k \in DOMAIN options /\ options[k] # None
        THEN options[k]
        ELSE params[k]]

\* the config dict handed to ReportRequest
request_config(self) ==
    [mws_access_key |-> self["mws_access_key"],
     mws_secret_key |-> self["mws_secret_key"],
     api_version |-> self["_api_version"],
     merchant_id |-> self["merchant_id"],
     mws_endpoint |-> self["_mws_endpoint"],
     headers |-> self["_headers"],
     handle_throttle |-> self["handle_throttle"]]

\* variant: send_post() called a second time on the same request
_operation_resend(params, options) ==
    LET req == ReportRequest(merge_options(params, options),
                             request_config(client))
        sent == send_post(send_post(req))
    IN  /\ request' = sent
        /\ n_requests' = n_requests + 1
        /\ n_send_post' = n_send_post + 2
        /\ returned' = sent.response

\* ReportClient._operation
_operation(params, options) ==
    LET req == ReportRequest(merge_options(params, options),
                             request_config(client))
        sent == send_post(req)
    IN  /\ request' = sent
        /\ n_requests' = n_requests + 1
        /\ n_send_post' = n_send_post + 1
        /\ returned' = sent.response

get_report_list(available_from, available_to, acknowledged, report_type_list, merchant_id, mws_auth_token) ==
    /\ pc = "ready"
    /\ n_calls < MaxCalls
    /\ n_calls' = n_calls + 1
    /\ op_call' = [op |-> "get_report_list",
                   optional |-> [available_from |-> available_from,
                                 available_to |-> available_to,
                                 acknowledged |-> acknowledged,
                                 report_type_list |-> report_type_list,
                                 merchant_id |-> merchant_id,
                                 mws_auth_token |-> mws_auth_token]]
    /\ _operation("Action" :> "GetReportList",
                  ("AvailableFromDate" :> available_from) @@
                  ("AvailableToDate" :> available_to) @@
                  ("Acknowledged" :> acknowledged) @@
                  ("ReportTypeList.Type.1" :> report_type_list) @@
                  ("SellerId" :> merchant_id) @@
                  ("MWSAuthToken" :> mws_auth_token))
    /\ UNCHANGED <<environ, pc, call, client, error, logger>>

get_report(report_id, merchant_id, mws_auth_token) ==
    /\ pc = "ready"
    /\ n_calls < MaxCalls
    /\ n_calls' = n_calls + 1
    /\ op_call' = [op |-> "get_report",
                   report_id |-> report_id,
                   optional |-> [merchant_id |-> merchant_id,
                                 mws_auth_token |-> mws_auth_token]]
    /\ _operation(("Action" :> "GetReport") @@ ("ReportId" :> report_id),
                  ("SellerId" :> merchant_id) @@
                  ("MWSAuthToken" :> mws_auth_token))
    /\ UNCHANGED <<environ, pc, call, client, error, logger>>

update_report_acknowledgements(report_id, acknowledged, merchant_id, mws_auth_token) ==
    /\ pc = "ready"
    /\ n_calls < MaxCalls
    /\ n_calls' = n_calls + 1
    /\ op_call' = [op |-> "update_report_acknowledgements",
                   report_id |-> report_id,
                   optional |-> [acknowledged |-> acknowledged,
                                 merchant_id |-> merchant_id,
                                 mws_auth_token |-> mws_auth_token]]
    /\ _operation(("Action" :> "UpdateReportAcknowledgements") @@
                  ("ReportIdList.Id.1" :> report_id) @@
                  ("Acknowledged" :> acknowledged),
                  ("SellerId" :> merchant_id) @@
                  ("MWSAuthToken" :> mws_auth_token))
    /\ UNCHANGED <<environ, pc, call, client, error, logger>>

(***************************************************************************)
(* Inputs.                                                                 *)
(***************************************************************************)
Opt(v) == {None, v}

\* environments: each AP_* variable unset, set to the empty string, or set
EnvValues(param) ==
    IF param = "region" THEN {"uk", "zz"} ELSE {"", "env-" \o param}

EnvOver(D) == [D -> {"", "uk", "zz"} \cup {"env-" \o p : p \in DOMAIN env_param_map}]

EnvSpace ==
    UNION {{e \in EnvOver({env_param_map[p] : p \in P}) :
               \A p \in P : e[env_param_map[p]] \in EnvValues(p)} :
           P \in SUBSET DOMAIN env_param_map}

\* explicit values of the five required arguments
ArgValues(param) ==
    IF param = "region" THEN {None, "", "na"} ELSE {None, "", "arg-" \o param}

DefaultRest ==
    [sandbox |-> FALSE, handle_throttle |-> TRUE, application_name |-> None,
     application_version |-> None, log_enabled |-> FALSE,
     log_file_name |-> None, log_level |-> None]

IdentityArgs ==
    {id \in [mws_access_key : ArgValues("mws_access_key"),
             mws_secret_key : ArgValues("mws_secret_key"),
             merchant_id : ArgValues("merchant_id"),
             region : ArgValues("region"),
             currency_code : ArgValues("currency_code")] : TRUE}

LogArgs ==
    {[log_enabled |-> FALSE, log_level |-> None, log_file_name |-> None],
     [log_enabled |-> TRUE, log_level |-> None, log_file_name |-> None],
     [log_enabled |-> TRUE, log_level |-> "debug", log_file_name |-> None],
     [log_enabled |-> TRUE, log_level |-> "Info", log_file_name |-> "sdk.log"],
     [log_enabled |-> TRUE, log_level |-> "bogus", log_file_name |-> None]}

\* record union: the fields of r overridden by those of s
Override(r, s) ==
    [k \in DOMAIN r \cup DOMAIN s |-> IF k \in DOMAIN s THEN s[k] ELSE r[k]]

\* constructor calls that vary the required arguments and the logging ones
CtorArgs ==
    {Override(Override(DefaultRest, id), lg) : id \in IdentityArgs, lg \in LogArgs}

\* constructor calls that vary everything but the logging arguments
AllGiven ==
    [mws_access_key |-> "arg-mws_access_key",
     mws_secret_key |-> "arg-mws_secret_key",
     merchant_id |-> "arg-merchant_id",
     region |-> "na",
     currency_code |-> "arg-currency_code"]

NoneGiven == [p \in DOMAIN env_param_map |-> None]

OpsArgs ==
    {Override(Override(DefaultRest, id), rest) :
        id \in {AllGiven, NoneGiven, [AllGiven EXCEPT !.region = None]},
        rest \in [sandbox : BOOLEAN, handle_throttle : BOOLEAN,
                  application_name : {None, "", "shop"},
                  application_version : {None, "", "1.2"}]}

EnvOps ==
    {<< >>,
     ("AP_REGION" :> "uk"),
     ("AP_MWS_ACCESS_KEY" :> "env-mws_access_key") @@
     ("AP_MWS_SECRET_KEY" :> "env-mws_secret_key") @@
     ("AP_MERCHANT_ID" :> "env-merchant_id") @@
     ("AP_REGION" :> "uk") @@
     ("AP_CURRENCY_CODE" :> "env-currency_code")}

(***************************************************************************)
(* Specifications.                                                         *)
(***************************************************************************)
InitIn(envs) ==
    /\ environ \in envs
    /\ pc = "new"
    /\ call = NoCall
    /\ client = NoClient
    /\ error = NoError
    /\ logger = class_logger
    /\ op_call = NoCall
    /\ request = NoRequest
    /\ n_calls = 0
    /\ n_requests = 0
    /\ n_send_post = 0
    /\ returned = [of |-> 0]

\* construction followed by any sequence of sandbox assignments and operations
Init == InitIn(EnvOps)

Next ==
    \/ \E a \in OpsArgs : Construct(a)
    \/ \E value \in BOOLEAN : SetSandbox(value)
    \/ \E available_from \in Opt("2020-01-01T00:00:00Z"),
          available_to \in Opt("2020-12-31T00:00:00Z"),
          acknowledged \in Opt("true"),
          report_type_list \in Opt("_GET_FLAT_FILE_OFFAMAZONPAYMENTS_SETTLEMENT_DATA_"),
          merchant_id \in Opt("SELLER"),
          mws_auth_token \in Opt("TOKEN") :
            get_report_list(available_from, available_to, acknowledged,
                            report_type_list, merchant_id, mws_auth_token)
    \/ \E report_id \in {"101", "102"},
          merchant_id \in Opt("SELLER"),
          mws_auth_token \in Opt("TOKEN") :
            get_report(report_id, merchant_id, mws_auth_token)
    \/ \E report_id \in {"101", "102"},
          acknowledged \in Opt("true"),
          merchant_id \in Opt("SELLER"),
          mws_auth_token \in Opt("TOKEN") :
            update_report_acknowledgements(report_id, acknowledged,
                                           merchant_id, mws_auth_token)

Spec == Init /\ [][Next]_vars

\* construction alone, over every environment and required-argument shape
InitCtor == InitIn(EnvSpace)

NextCtor == \E a \in CtorArgs : Construct(a)

SpecCtor == InitCtor /\ [][NextCtor]_vars

(***************************************************************************)
(* Vocabulary of the properties.                                           *)
(***************************************************************************)
RequiredFields == DOMAIN env_param_map

\* the field has an explicit argument or its environment variable is set
Resolvable(p) == call[p] # None \/ env_param_map[p] \in DOMAIN environ

\* what a resolvable field resolves to
Resolved(p) == IF call[p] # None THEN call[p] ELSE environ[env_param_map[p]]

Constructed == pc # "new"

(***************************************************************************)
(* Properties of construction (checked under SpecCtor).                    *)
(***************************************************************************)

\* C1: for each required field, when its explicit argument is None and its
\* environment variable is unset while the other four fields are resolvable,
\* construction raises ValueError with a message naming that field, and no
\* client object is produced.
C1_MissingFieldValueError ==
    \A p \in RequiredFields :
        (/\ Constructed
         /\ call[p] = None
         /\ env_param_map[p] \notin DOMAIN environ
         /\ \A q \in RequiredFields \ {p} : Resolvable(q))
        => /\ pc = "raised"
           /\ error = [type |-> "ValueError", msg |-> "Invalid " \o p \o "."]
           /\ client = NoClient

C1_Witness ==
    /\ pc = "raised"
    /\ call["merchant_id"] = None
    /\ "AP_MERCHANT_ID" \notin DOMAIN environ
    /\ \A q \in RequiredFields \ {"merchant_id"} : Resolvable(q)
    /\ error.msg = "Invalid merchant_id."

\* C2: for every required field the explicit argument has priority: when it
\* is not None the stored field equals it whatever the environment holds;
\* when it is None and the environment variable is set, the stored field
\* equals the variable's value.
C2_ExplicitArgumentWins ==
    pc = "ready" =>
        \A p \in RequiredFields :
            /\ call[p] # None => client[p] = call[p]
            /\ (call[p] = None /\ env_param_map[p] \in DOMAIN environ)
                   => client[p] = environ[env_param_map[p]]

C2_Witness ==
    /\ pc = "ready"
    /\ call["mws_access_key"] = "arg-mws_access_key"
    /\ "AP_MWS_ACCESS_KEY" \in DOMAIN environ
    /\ environ["AP_MWS_ACCESS_KEY"] = "env-mws_access_key"
    /\ call["currency_code"] = None
    /\ client["currency_code"] = "env-currency_code"

\* C3: when all five required fields resolve and the resolved region code is
\* not a key of the region table, construction raises KeyError with a message
\* containing that code; when the code is a key, the client's region host is
\* the table's entry for it.
C3_RegionLookup ==
    (Constructed /\ \A p \in RequiredFields : Resolvable(p)) =>
        LET code == Resolved("region")
        IN  /\ code \notin DOMAIN regions =>
                /\ pc = "raised"
                /\ error = [type |-> "KeyError",
                            msg |-> "Invalid region code (" \o code \o ")"]
                /\ client = NoClient
            /\ (code \in DOMAIN regions /\ pc = "ready") =>
                client["_region"] = regions[code]

C3_Witness ==
    /\ pc = "raised"
    /\ \A p \in RequiredFields : Resolvable(p)
    /\ call["region"] = None
    /\ environ["AP_REGION"] = "zz"
    /\ error.type = "KeyError"

\* C4 as stated: in every successfully constructed client each of the five
\* required fields is non-empty.
C4_FieldsNonEmpty ==
    pc = "ready" => \A p \in RequiredFields : client[p] # ""

\* C4 amended: in every successfully constructed client each of the five
\* required fields is set and is not None, and a construction in which a
\* field has neither an explicit argument nor an environment variable fails;
\* an empty string from either source counts as a value and is stored.
C4_FieldsResolved ==
    /\ pc = "ready" =>
        \A p \in RequiredFields :
            /\ p \in DOMAIN client
            /\ client[p] # None
            /\ Resolvable(p)
            /\ Resolved(p) = "" => client[p] = ""
    /\ (Constructed /\ \E p \in RequiredFields : ~Resolvable(p))
           => pc = "raised" /\ client = NoClient

C4_Witness ==
    /\ pc = "ready"
    /\ call["mws_access_key"] = ""
    /\ client["mws_access_key"] = ""
    /\ call["currency_code"] = None
    /\ client["currency_code"] = ""

\* C9: construction fails only with a ValueError for a missing required
\* field or a KeyError for an invalid region code; whenever all five fields
\* resolve and the region code is in the table, construction succeeds for
\* every combination of the remaining arguments, log_enabled with log_level
\* left at None included.
C9_OnlyTwoFailures ==
    /\ pc = "raised" => error.type \in {"ValueError", "KeyError"}
    /\ (/\ Constructed
        /\ \A p \in RequiredFields : Resolvable(p)
        /\ Resolved("region") \in DOMAIN regions)
       => pc = "ready"

\* C10: the ValueError names the first unresolved field in the order
\* mws_access_key, mws_secret_key, merchant_id, region, currency_code, and the
\* region lookup happens only after all five have resolved: a construction
\* with an unresolved field never fails with the invalid-region KeyError.
C10_ErrorPrecedence ==
    LET order == <<"mws_access_key", "mws_secret_key", "merchant_id",
                   "region", "currency_code">>
        missing == {i \in 1..5 : ~Resolvable(order[i])}
    IN  (Constructed /\ missing # {}) =>
            LET first == CHOOSE i \in missing : \A j \in missing : i <= j
            IN  /\ pc = "raised"
                /\ error = [type |-> "ValueError",
                            msg |-> "Invalid " \o order[first] \o "."]

C10_Witness ==
    /\ pc = "raised"
    /\ call["region"] = ""
    /\ call["merchant_id"] = None
    /\ "AP_MERCHANT_ID" \notin DOMAIN environ
    /\ call["currency_code"] = None
    /\ "AP_CURRENCY_CODE" \notin DOMAIN environ
    /\ Resolvable("mws_access_key")
    /\ Resolvable("mws_secret_key")
    /\ error = [type |-> "ValueError", msg |-> "Invalid merchant_id."]

(***************************************************************************)
(* Properties of the sandbox property and the report operations (checked   *)
(* under Spec).                                                            *)
(***************************************************************************)

\* the URL the endpoint builder gives for a region host
EndpointFor(host) ==
    "https://" \o host \o "/" \o versions.api_name \o "/" \o versions.api_version

\* C5 as stated: setting sandbox to a value different from the current one
\* yields an endpoint string that differs from the one before the toggle.
C5_ToggleChangesEndpoint ==
    [][(pc = "ready" /\ client'["_sandbox"] # client["_sandbox"])
           => client'["_mws_endpoint"] # client["_mws_endpoint"]]_vars

\* C5 amended: setting sandbox to a value different from the current one
\* recomputes the endpoint, and the recomputed endpoint is the same string as
\* before the toggle: it is determined solely by the client's region host
\* (and the fixed API name and version), not by the sandbox value.
C5_ToggleKeepsEndpoint ==
    [][(pc = "ready" /\ client'["_sandbox"] # client["_sandbox"])
           => /\ client'["_mws_endpoint"] = EndpointFor(client'["_region"])
              /\ client'["_mws_endpoint"] = client["_mws_endpoint"]
              /\ client'["_region"] = client["_region"]]_vars

C5_Witness ==
    /\ pc = "ready"
    /\ client["_sandbox"] # call.sandbox
    /\ client["_mws_endpoint"] = EndpointFor(regions["uk"])

\* the documented key of each optional argument, and each operation's Action
OptionKey ==
    ("available_from" :> "AvailableFromDate") @@
    ("available_to" :> "AvailableToDate") @@
    ("acknowledged" :> "Acknowledged") @@
    ("report_type_list" :> "ReportTypeList.Type.1") @@
    ("merchant_id" :> "SellerId") @@
    ("mws_auth_token" :> "MWSAuthToken")

ActionName ==
    ("get_report_list" :> "GetReportList") @@
    ("get_report" :> "GetReport") @@
    ("update_report_acknowledgements" :> "UpdateReportAcknowledgements")

\* C6: for each report operation and every combination of None / non-None
\* optional arguments, the parameter mapping handed to the request has no key
\* whose value is None, carries every non-None optional argument under its
\* documented key, and carries the operation's Action name.
C6_ParameterMapping ==
    n_calls > 0 =>
        LET p == request.params
            o == op_call.optional
        IN  /\ \A k \in DOMAIN p : p[k] # None
            /\ \A arg \in DOMAIN o :
                  o[arg] # None =>
                      /\ OptionKey[arg] \in DOMAIN p
                      /\ p[OptionKey[arg]] = o[arg]
            /\ "Action" \in DOMAIN p
            /\ p["Action"] = ActionName[op_call.op]

\* C7: every invocation of a report operation constructs exactly one request
\* from the client's current configuration, calls send_post on it exactly
\* once and returns that request's response; after n invocations there have
\* been exactly n send_post calls.
C7_OneSendPerInvocation ==
    /\ n_requests = n_calls
    /\ n_send_post = n_calls
    /\ n_calls > 0 =>
        /\ request.id = n_calls
        /\ request.response = [of |-> request.id]
        /\ returned = request.response
        /\ request.config =
               [mws_access_key |-> client["mws_access_key"],
                mws_secret_key |-> client["mws_secret_key"],
                api_version |-> versions.api_version,
                merchant_id |-> client["merchant_id"],
                mws_endpoint |-> client["_mws_endpoint"],
                headers |-> client["_headers"],
                handle_throttle |-> client["handle_throttle"]]

C7_Witness ==
    /\ n_calls = 2
    /\ n_send_post = 2
    /\ returned = [of |-> 2]
    /\ op_call.op = "get_report"

\* C8: in every state after a successful construction, whatever sandbox
\* assignments and report operations followed, the endpoint is
\* 'https://<region host>/<api name>/<api version>' for the host the region
\* code resolved at construction maps to, and the endpoint handed to a
\* request is that value.
C8_EndpointInvariant ==
    pc = "ready" =>
        /\ client["_mws_endpoint"] = EndpointFor(regions[Resolved("region")])
        /\ n_calls > 0 =>
               request.config.mws_endpoint
                   = EndpointFor(regions[Resolved("region")])

C8_Witness ==
    /\ pc = "ready"
    /\ n_calls > 0
    /\ client["_sandbox"] # call.sandbox
    /\ request.config.mws_endpoint = EndpointFor(regions["na"])

=============================================================================
